---- MODULE Spec2Model ----
(***************************************************************************)
(* Entity disambiguation and clarification-reply resolution of the AFL     *)
(* chat agent: _disambiguate_player (entity_resolver.py) and the           *)
(* clarification context detection of understand_node (graph.py).          *)
(* The hooks useGameLoop, useCharacterController and useAnalytics have     *)
(* each a specification over their own variables.                          *)
(*                                                                         *)
(* Python strings are modelled as sequences of one-character strings, so   *)
(* that lower(), replace(), split(), strip() and the regular expression    *)
(* act on characters exactly as in the code.                               *)
(***************************************************************************)
EXTENDS Integers, Sequences, FiniteSets, TLC

VARIABLES
  player_stats,          \* player name -> set of seasons with rows in player_stats
  conversation_history,  \* sequence of saved messages [role, content, entities]
  results,               \* the agent state returned by each completed turn, in order
  call,                  \* arguments of a single function call under test
  ret,                   \* its return value
  isRunning,             \* useGameLoop: the isRunning prop of the last committed render
  onTick,                \* the onTick prop of the last committed render
  mounted,               \* the component using the hook is mounted
  effectDeps,            \* [isRunning] of the loop effect as last run; <<>> when none is in place
  tickDeps,              \* [onTick] of the onTickRef effect as last run; <<>> when none is in place
  requestRef,            \* requestRef.current
  previousTimeRef,       \* previousTimeRef.current
  onTickRef,             \* onTickRef.current
  frameRequests,         \* handles of the browser's pending animation frame requests
  nextHandle,            \* the handle the next requestAnimationFrame returns
  now,                   \* timestamp of the last animation frame
  ticks,                 \* the calls of onTick, in order
  frames,                \* the runs of the loop effect's start and of animate, in order
  disabled,              \* useCharacterController: the disabled prop of the last committed render
  keysPressed,           \* the keysPressed state of the last committed render
  listenerDeps,          \* disabled as closed over by the attached keydown listener; <<>> when none is attached
  clearDeps,             \* [disabled] of the clearing effect as last run; <<>> when none is in place
  pendingClear,          \* setKeysPressed(new Set()) is queued and not rendered yet
  jumps,                 \* the calls of onJump, in order
  controllerMounted,     \* the component using the controller hook is mounted
  pathname,              \* useAnalytics: location.pathname of the last committed render
  trackDeps,             \* [location.pathname] of the tracking effect as last run; <<>> when not run yet
  lastTrackedPath,       \* lastTrackedPath.current
  visitorStore,          \* localStorage item 'visitor_id'
  requests,              \* the tracking requests sent, in order
  visits                 \* the pathnames of the committed renders, in order

chatVars == <<player_stats, conversation_history, results, call, ret>>

loopVars ==
  <<isRunning, onTick, mounted, effectDeps, tickDeps, requestRef,
    previousTimeRef, onTickRef, frameRequests, nextHandle, now, ticks,
    frames>>

keyVars ==
  <<disabled, keysPressed, listenerDeps, clearDeps, pendingClear, jumps,
    controllerMounted>>

analyticsVars ==
  <<pathname, trackDeps, lastTrackedPath, visitorStore, requests, visits>>

hookVars == <<loopVars, keyVars, analyticsVars>>

vars == <<chatVars, hookVars>>

\* results of a resolution attempt share one record shape
Result(kind, entity, warning, message) ==
  [kind |-> kind, entity |-> entity, warning |-> warning, message |-> message]

None == Result("None", <<>>, FALSE, <<>>)

NotCalled == Result("NotCalled", <<>>, FALSE, <<>>)

\* useRef<number>() with nothing assigned; handles and timestamps are positive
Undefined == 0

\* no component uses the game loop hook
LoopIdle ==
  /\ isRunning = FALSE
  /\ onTick = "none"
  /\ mounted = FALSE
  /\ effectDeps = <<>>
  /\ tickDeps = <<>>
  /\ requestRef = Undefined
  /\ previousTimeRef = Undefined
  /\ onTickRef = "none"
  /\ frameRequests = {}
  /\ nextHandle = 1
  /\ now = 0
  /\ ticks = <<>>
  /\ frames = <<>>

\* no component uses the character controller hook
KeysIdle ==
  /\ disabled = FALSE
  /\ keysPressed = {}
  /\ listenerDeps = <<>>
  /\ clearDeps = <<>>
  /\ pendingClear = FALSE
  /\ jumps = <<>>
  /\ controllerMounted = FALSE

\* null of lastTrackedPath and of localStorage.getItem
Null == "null"

\* no component uses the analytics hook
AnalyticsIdle ==
  /\ pathname = Null
  /\ trackDeps = <<>>
  /\ lastTrackedPath = Null
  /\ visitorStore = Null
  /\ requests = <<>>
  /\ visits = <<>>

HooksIdle == LoopIdle /\ KeysIdle /\ AnalyticsIdle

(* ------------------------------ bounds --------------------------------- *)

MaxTurns == 3

(* --------------------------- string helpers ---------------------------- *)

UpperLetters ==
  <<"A","B","C","D","E","F","G","H","I","J","K","L","M",
    "N","O","P","Q","R","S","T","U","V","W","X","Y","Z">>

LowerLetters ==
  <<"a","b","c","d","e","f","g","h","i","j","k","l","m",
    "n","o","p","q","r","s","t","u","v","w","x","y","z">>

\* upper-case letter -> lower-case letter
LowerMap ==
  [c \in {UpperLetters[i] : i \in 1..26} |->
     LowerLetters[CHOOSE i \in 1..26 : UpperLetters[i] = c]]

LowerChar(c) == IF c \in DOMAIN LowerMap THEN LowerMap[c] ELSE c

\* str.lower()
Lower(s) == [i \in 1..Len(s) |-> LowerChar(s[i])] \o <<>>

\* str.strip(): leading and trailing whitespace removed
Strip(s) ==
  LET nonSpace == {i \in 1..Len(s) : s[i] # " "}
  IN IF nonSpace = {} THEN <<>>
     ELSE SubSeq(s,
                 CHOOSE i \in nonSpace : \A j \in nonSpace : i <= j,
                 CHOOSE i \in nonSpace : \A j \in nonSpace : i >= j)

\* pat occurs in s at position i
StartsAt(s, pat, i) ==
  /\ i >= 1
  /\ i + Len(pat) - 1 <= Len(s)
  /\ \A k \in 1..Len(pat) : s[i + k - 1] = pat[k]

\* Python "sub in s" on strings
Contains(s, sub) == \E i \in 1..(Len(s) - Len(sub) + 1) : StartsAt(s, sub, i)

RECURSIVE RemoveFrom(_, _, _)
RemoveFrom(s, pat, i) ==
  IF i > Len(s) THEN <<>>
  ELSE IF StartsAt(s, pat, i) THEN RemoveFrom(s, pat, i + Len(pat))
  ELSE <<s[i]>> \o RemoveFrom(s, pat, i + 1)

\* s.replace(pat, ''): every non-overlapping occurrence, leftmost first
Remove(s, pat) == RemoveFrom(s, pat, 1)

RECURSIVE SplitFrom(_, _, _)
SplitFrom(s, i, cur) ==
  IF i > Len(s) THEN (IF cur = <<>> THEN <<>> ELSE <<cur>>)
  ELSE IF s[i] = " "
       THEN (IF cur = <<>> THEN <<>> ELSE <<cur>>) \o SplitFrom(s, i + 1, <<>>)
       ELSE SplitFrom(s, i + 1, Append(cur, s[i]))

\* str.split(): split on runs of whitespace, no empty words
Split(s) == SplitFrom(s, 1, <<>>)

RECURSIVE SplitOnFrom(_, _, _, _)
SplitOnFrom(s, sep, i, cur) ==
  IF i > Len(s) THEN <<cur>>
  ELSE IF s[i] = sep THEN <<cur>> \o SplitOnFrom(s, sep, i + 1, <<>>)
  ELSE SplitOnFrom(s, sep, i + 1, Append(cur, s[i]))

\* str.split(sep) for a one-character separator: empty pieces are kept
SplitOn(s, sep) == SplitOnFrom(s, sep, 1, <<>>)

RECURSIVE Join(_, _)
\* sep.join(items)
Join(items, sep) ==
  IF items = <<>> THEN <<>>
  ELSE IF Len(items) = 1 THEN items[1]
  ELSE items[1] \o sep \o Join(Tail(items), sep)

Range(f) == {f[i] : i \in DOMAIN f}

(* ------------------------------ literals ------------------------------- *)

GordonDangerfield ==
  <<"G","o","r","d","o","n"," ","D","a","n","g","e","r","f","i","e","l","d">>
JoshDaicos ==
  <<"J","o","s","h"," ","D","a","i","c","o","s">>
JoshJKennedy ==
  <<"J","o","s","h"," ","J","."," ","K","e","n","n","e","d","y">>
JoshPKennedy ==
  <<"J","o","s","h"," ","P","."," ","K","e","n","n","e","d","y">>
NickDaicos ==
  <<"N","i","c","k"," ","D","a","i","c","o","s">>
PatrickDangerfield ==
  <<"P","a","t","r","i","c","k"," ","D","a","n","g","e","r","f","i","e","l","d">>
PeterDaicos ==
  <<"P","e","t","e","r"," ","D","a","i","c","o","s">>
SydneyStack ==
  <<"S","y","d","n","e","y"," ","S","t","a","c","k">>
TomStack ==
  <<"T","o","m"," ","S","t","a","c","k">>
WesternBulldogs ==
  <<"W","e","s","t","e","r","n"," ","B","u","l","l","d","o","g","s">>
WesternSydney ==
  <<"W","e","s","t","e","r","n"," ","S","y","d","n","e","y">>

Daicos ==
  <<"D","a","i","c","o","s">>
Dangerfield ==
  <<"D","a","n","g","e","r","f","i","e","l","d">>
Josh ==
  <<"J","o","s","h">>
Nick ==
  <<"N","i","c","k">>
Patrick ==
  <<"P","a","t","r","i","c","k">>
Smith ==
  <<"S","m","i","t","h">>
Western ==
  <<"W","e","s","t","e","r","n">>
Bulldogs ==
  <<"B","u","l","l","d","o","g","s">>
Stack ==
  <<"S","t","a","c","k">>
Sydney ==
  <<"S","y","d","n","e","y">>
S2022 ==
  <<"2","0","2","2">>
S2025 ==
  <<"2","0","2","5">>
Goals ==
  <<"g","o","a","l","s">>
Wins ==
  <<"w","i","n","s">>

FillerPlease ==
  <<" ","p","l","e","a","s","e">>
FillerThanks ==
  <<" ","t","h","a","n","k","s">>
FillerPls ==
  <<" ","p","l","s">>
FillerThx ==
  <<" ","t","h","x">>
FillerComma ==
  <<",">>
FillerDot ==
  <<".">>
FillerQuestion ==
  <<" ","?">>
WhichPlayer ==
  <<"w","h","i","c","h"," ","p","l","a","y","e","r"," ","d","i","d"," ","y","o","u"," ","m","e","a","n","?">>
WhichTeam ==
  <<"w","h","i","c","h"," ","t","e","a","m"," ","d","i","d"," ","y","o","u"," ","m","e","a","n","?">>
Which ==
  <<"w","h","i","c","h">>
MultiplePrefix ==
  <<"M","u","l","t","i","p","l","e"," ">>
NamedInfix ==
  <<"s"," ","n","a","m","e","d"," ","'">>
ActiveInfix ==
  <<"'"," ","w","e","r","e"," ","a","c","t","i","v","e"," ","i","n"," ">>
ColonSpace ==
  <<":"," ">>
CommaSpace ==
  <<","," ">>
QuestionInfix ==
  <<"."," ","W","h","i","c","h"," ">>
QuestionSuffix ==
  <<" ","d","i","d"," ","y","o","u"," ","m","e","a","n","?">>
PlayerNoun ==
  <<"p","l","a","y","e","r">>
TeamNoun ==
  <<"t","e","a","m">>
AnswerText ==
  <<"N","i","c","k"," ","D","a","i","c","o","s"," ","k","i","c","k","e","d"," ","1","4"," ","g","o","a","l","s"," ","i","n"," ","2","0","2","5">>

TextDaicos2025 ==
  <<"H","o","w"," ","m","a","n","y"," ","g","o","a","l","s"," ","d","i","d"," ","D","a","i","c","o","s"," ","k","i","c","k"," ","i","n"," ","2","0","2","5","?">>
TextDangerfield2022 ==
  <<"H","o","w"," ","m","a","n","y"," ","g","o","a","l","s"," ","d","i","d"," ","D","a","n","g","e","r","f","i","e","l","d"," ","k","i","c","k"," ","i","n"," ","2","0","2","2","?">>
TextJosh2022 ==
  <<"H","o","w"," ","m","a","n","y"," ","g","o","a","l","s"," ","d","i","d"," ","J","o","s","h"," ","k","i","c","k"," ","i","n"," ","2","0","2","2","?">>
TextSmith ==
  <<"H","o","w"," ","m","a","n","y"," ","g","o","a","l","s"," ","d","i","d"," ","S","m","i","t","h"," ","k","i","c","k","?">>
TextWestern2025 ==
  <<"H","o","w"," ","m","a","n","y"," ","w","i","n","s"," ","d","i","d"," ","W","e","s","t","e","r","n"," ","h","a","v","e"," ","i","n"," ","2","0","2","5","?">>
TextNickPlease ==
  <<"N","i","c","k"," ","p","l","e","a","s","e">>
TextNick ==
  <<"N","i","c","k">>
TextNickLower ==
  <<"n","i","c","k">>
TextJosh ==
  <<"J","o","s","h">>
TextJoshDaicosLower ==
  <<"j","o","s","h"," ","d","a","i","c","o","s">>
TextNickDaicos ==
  <<"N","i","c","k"," ","D","a","i","c","o","s">>
TextDaicos ==
  <<"D","a","i","c","o","s">>
TextPatrick ==
  <<"P","a","t","r","i","c","k">>
TextBulldogs ==
  <<"B","u","l","l","d","o","g","s">>
TextStack ==
  <<"H","o","w"," ","m","a","n","y"," ","g","o","a","l","s"," ","d","i","d"," ","S","t","a","c","k"," ","k","i","c","k","?">>
TextSydney ==
  <<"S","y","d","n","e","y">>
TextDaicosWestern2025 ==
  <<"H","o","w"," ","m","a","n","y"," ","g","o","a","l","s"," ","d","i","d"," ","D","a","i","c","o","s"," ","k","i","c","k"," ","a","g","a","i","n","s","t"," ","W","e","s","t","e","r","n"," ","i","n"," ","2","0","2","5","?">>
TextPlease ==
  <<"p","l","e","a","s","e">>
TextNic ==
  <<"n","i","c">>

TextEmpty == <<>>

TextDaicosNick ==
  <<"d","a","i","c","o","s"," ","n","i","c","k">>

TextNickUpper ==
  <<"N","I","C","K">>

TextComma ==
  <<",">>

TextNickSpace ==
  <<"N","i","c","k"," ">>

(* ------------------------------ database ------------------------------- *)

\* players table, in the order the name query returns rows
Players ==
  <<GordonDangerfield, JoshDaicos, JoshJKennedy, JoshPKennedy,
    NickDaicos, PatrickDangerfield, PeterDaicos, SydneyStack, TomStack>>

Teams == <<WesternBulldogs, WesternSydney>>

Seasons == {S2022, S2025}

\* every team has played in every season
TeamStats == [t \in Range(Teams) |-> Seasons]

\* SELECT name FROM players WHERE name ILIKE '%name%'
query_like(table, name) ==
  SelectSeq(table, LAMBDA p : Contains(Lower(p), Lower(name)))

\* rows of the stats table for p in one of the seasons; with no season given,
\* any row at all
has_stats_in_season(stats, p, seasons) ==
  IF seasons = <<>> THEN stats[p] # {}
  ELSE \E i \in DOMAIN seasons : seasons[i] \in stats[p]

(* --------------------------- disambiguation ---------------------------- *)

RECURSIVE Quoted(_)
\* repr() of each str of a list
Quoted(items) ==
  IF items = <<>> THEN <<>>
  ELSE <<(<<"'">> \o Head(items) \o <<"'">>)>> \o Quoted(Tail(items))

\* repr() of a Python list of str, as an f-string prints it
ReprList(items) ==
  <<"[">> \o Join(Quoted(items), CommaSpace) \o <<"]">>

\* f"Multiple players named '{player_name}' were active in {seasons}: "
\* f"{', '.join(active_players)}. Which player did you mean?"
clarification_text(noun, name, seasons, active) ==
  MultiplePrefix \o noun \o NamedInfix \o name \o ActiveInfix
    \o ReprList(seasons) \o ColonSpace \o Join(active, CommaSpace)
    \o QuestionInfix \o noun \o QuestionSuffix

\* return of a player; warn marks "use first with warning"
ResolvedTo(entity, warn) == Result("Resolved", entity, warn, <<>>)

\* raise NeedsClarification(text)
NeedsClarification(text) == Result("NeedsClarification", <<>>, FALSE, text)

\* all_matches[0] on an empty list
IndexError == Result("IndexError", <<>>, FALSE, <<>>)

\* variant: no early return for a single match
disambiguate_no_shortcut(table, stats, noun, name, seasons) ==
  LET all_matches == query_like(table, name)
      active_players ==
        SelectSeq(all_matches, LAMBDA p : has_stats_in_season(stats, p, seasons))
  IN IF Len(active_players) = 1 THEN ResolvedTo(active_players[1], FALSE)
     ELSE IF Len(active_players) = 0
          THEN IF all_matches = <<>> THEN IndexError
               ELSE ResolvedTo(all_matches[1], TRUE)
     ELSE NeedsClarification(
            clarification_text(noun, name, seasons, active_players))

\* variant: the single active player is ignored and the first match returned
disambiguate_first_match(table, stats, noun, name, seasons) ==
  LET all_matches == query_like(table, name)
      active_players ==
        SelectSeq(all_matches, LAMBDA p : has_stats_in_season(stats, p, seasons))
  IN IF Len(all_matches) = 1 THEN ResolvedTo(all_matches[1], FALSE)
     ELSE IF Len(active_players) = 1 THEN ResolvedTo(all_matches[1], FALSE)
     ELSE IF Len(active_players) = 0
          THEN IF all_matches = <<>> THEN IndexError
               ELSE ResolvedTo(all_matches[1], TRUE)
     ELSE NeedsClarification(
            clarification_text(noun, name, seasons, active_players))

\* variant: the question lists every match, active or not
disambiguate_lists_all(table, stats, noun, name, seasons) ==
  LET all_matches == query_like(table, name)
      active_players ==
        SelectSeq(all_matches, LAMBDA p : has_stats_in_season(stats, p, seasons))
  IN IF Len(all_matches) = 1 THEN ResolvedTo(all_matches[1], FALSE)
     ELSE IF Len(active_players) = 1 THEN ResolvedTo(active_players[1], FALSE)
     ELSE IF Len(active_players) = 0
          THEN IF all_matches = <<>> THEN IndexError
               ELSE ResolvedTo(all_matches[1], TRUE)
     ELSE NeedsClarification(
            clarification_text(noun, name, seasons, all_matches))

\* variant: a single active player is asked about instead of returned
disambiguate_asks_single(table, stats, noun, name, seasons) ==
  LET all_matches == query_like(table, name)
      active_players ==
        SelectSeq(all_matches, LAMBDA p : has_stats_in_season(stats, p, seasons))
  IN IF Len(all_matches) = 1 THEN ResolvedTo(all_matches[1], FALSE)
     ELSE IF Len(active_players) = 0
          THEN IF all_matches = <<>> THEN IndexError
               ELSE ResolvedTo(all_matches[1], TRUE)
     ELSE NeedsClarification(
            clarification_text(noun, name, seasons, active_players))

disambiguate(table, stats, noun, name, seasons) ==
  LET all_matches == query_like(table, name)
      active_players ==
        SelectSeq(all_matches, LAMBDA p : has_stats_in_season(stats, p, seasons))
  IN IF Len(all_matches) = 1 THEN ResolvedTo(all_matches[1], FALSE)
     ELSE IF Len(active_players) = 1 THEN ResolvedTo(active_players[1], FALSE)
     ELSE IF Len(active_players) = 0
          THEN IF all_matches = <<>> THEN IndexError
               ELSE ResolvedTo(all_matches[1], TRUE)
     ELSE NeedsClarification(
            clarification_text(noun, name, seasons, active_players))

disambiguate_player(player_name, seasons) ==
  disambiguate(Players, player_stats, PlayerNoun, player_name, seasons)

disambiguate_team(team_name, seasons) ==
  disambiguate(Teams, TeamStats, TeamNoun, team_name, seasons)

(* ----------------- specification: one disambiguation call --------------- *)

PlayerQueries == {Daicos, Dangerfield, Josh, Nick, Patrick, Smith}

SeasonLists == {<<>>, <<S2022>>, <<S2025>>, <<S2022, S2025>>}

MatchedPlayers ==
  [n \in PlayerQueries |-> Range(query_like(Players, n))]

\* stats rows of players the name does not match are never read by the call
InitDisambiguate ==
  /\ call \in [fn : {"disambiguate_player"}, name : PlayerQueries,
               seasons : SeasonLists]
  /\ player_stats \in
       {[p \in Range(Players) |-> IF p \in DOMAIN f THEN f[p] ELSE {}] :
          f \in [MatchedPlayers[call.name] -> SUBSET Seasons]}
  /\ ret = NotCalled
  /\ conversation_history = <<>>
  /\ results = <<>>
  /\ HooksIdle

CallDisambiguate ==
  /\ call.fn = "disambiguate_player"
  /\ ret = NotCalled
  /\ ret' = disambiguate_player(call.name, call.seasons)
  /\ UNCHANGED <<player_stats, conversation_history, results, call>>
  /\ UNCHANGED hookVars

NextDisambiguate == CallDisambiguate

SpecDisambiguate == InitDisambiguate /\ [][NextDisambiguate]_vars

(* ----------------------- clarification-reply matching ------------------- *)

\* for filler in [' please', ' thanks', ' pls', ' thx', ',', '.', ' ?']
Fillers ==
  <<FillerPlease, FillerThanks, FillerPls, FillerThx,
    FillerComma, FillerDot, FillerQuestion>>

RECURSIVE RemoveAll(_, _)
RemoveAll(s, fillers) ==
  IF fillers = <<>> THEN s
  ELSE RemoveAll(Remove(s, Head(fillers)), Tail(fillers))

\* variant: the filler loop is missing
clean_response_no_fillers(user_query) ==
  Strip(Lower(user_query))

\* user_response_cleaned
clean_response(user_query) ==
  Strip(RemoveAll(Strip(Lower(user_query)), Fillers))

\* one pass of the loop "for candidate in candidates"
candidate_matches(user_response_cleaned, candidate) ==
  LET candidate_lower == Lower(candidate)
      user_words      == Split(user_response_cleaned)
      candidate_words == Split(candidate_lower)
  IN \/ user_response_cleaned = candidate_lower
     \/ IF Len(user_words) = 1
        THEN user_words[1] \in Range(candidate_words)
        ELSE \A i \in DOMAIN user_words : user_words[i] \in Range(candidate_words)

\* variant: the loop stops at the first candidate that matches
matches_of_first_hit(user_response_cleaned, candidates) ==
  LET hits == SelectSeq(candidates,
                        LAMBDA c : candidate_matches(user_response_cleaned, c))
  IN IF hits = <<>> THEN <<>> ELSE <<hits[1]>>

matches_of(user_response_cleaned, candidates) ==
  SelectSeq(candidates, LAMBDA c : candidate_matches(user_response_cleaned, c))

potential_matches(user_query, candidates) ==
  matches_of(clean_response(user_query), candidates)

\* variant: any match is taken
at_least_one(matches) == Len(matches) >= 1

\* if len(potential_matches) == 1
exactly_one(matches) == Len(matches) = 1

\* "which player did you mean?" in content.lower() or "which team ..."
is_clarification_question(content) ==
  LET lowered == Lower(content)
  IN Contains(lowered, WhichPlayer) \/ Contains(lowered, WhichTeam)

\* position of the first '.' after position p, or 0
FirstDotAfter(content, p) ==
  LET dots == {q \in (p + 1)..Len(content) : content[q] = "."}
  IN IF dots = {} THEN 0 ELSE CHOOSE q \in dots : \A r \in dots : q <= r

\* first position after p that holds no whitespace
SkipSpaces(content, p) ==
  LET rest == {w \in (p + 1)..(Len(content) + 1) :
                 w = Len(content) + 1 \/ content[w] # " "}
  IN CHOOSE w \in rest : \A r \in rest : w <= r

\* re.search(r':\s*([^.]+?)\.\s*which', content, re.IGNORECASE) anchored at
\* the ':' of position p: the group cannot hold a '.', so it ends before the
\* first '.' after p, which "\s*which" must follow
regex_group_at(content, p) ==
  LET q == FirstDotAfter(content, p)
      g == SkipSpaces(content, p)
      start == IF g < q THEN g ELSE q - 1
  IN IF /\ content[p] = ":"
        /\ q > p + 1
        /\ StartsAt(Lower(content), Which, SkipSpaces(content, q))
     THEN [found |-> TRUE, group |-> SubSeq(content, start, q - 1)]
     ELSE [found |-> FALSE, group |-> <<>>]

\* the leftmost match
regex_search(content) ==
  LET hits == {p \in 1..Len(content) :
                 content[p] = ":" /\ regex_group_at(content, p).found}
  IN IF hits = {} THEN [found |-> FALSE, group |-> <<>>]
     ELSE regex_group_at(content, CHOOSE p \in hits : \A r \in hits : p <= r)

RECURSIVE StripEach(_)
StripEach(items) ==
  IF items = <<>> THEN <<>> ELSE <<Strip(Head(items))>> \o StripEach(Tail(items))

\* candidates = [name.strip() for name in candidates_str.split(',')]
extract_candidates(content) ==
  LET m == regex_search(content)
  IN IF m.found
     THEN [found |-> TRUE, candidates |-> StripEach(SplitOn(m.group, ","))]
     ELSE [found |-> FALSE, candidates |-> <<>>]

\* variant: the scan runs forward and stops at the first message of the role
first_with_role(history, role) ==
  {i \in 1..Len(history) :
     /\ history[i].role = role
     /\ \A j \in 1..(i - 1) : history[j].role # role}

\* variant: the scan does not stop, every message of the role is taken
all_with_role(history, role) ==
  {i \in 1..Len(history) : history[i].role = role}

\* for msg in reversed(conversation_history): if role == wanted: ...; break
last_with_role(history, role) ==
  {i \in 1..Len(history) :
     /\ history[i].role = role
     /\ \A j \in (i + 1)..Len(history) : history[j].role # role}

NoEntities ==
  [players |-> <<>>, teams |-> <<>>, seasons |-> <<>>, metrics |-> <<>>,
   rounds |-> <<>>]

\* variant: seasons and metrics of the original query are not copied
reply_entities_no_copy(history, matched_candidate) ==
  [players |-> <<matched_candidate>>, teams |-> <<>>, seasons |-> <<>>,
   metrics |-> <<>>, rounds |-> <<>>]

\* state["entities"] = {...}; seasons and metrics copied from the last user
\* message of the history when it has them
reply_entities(history, matched_candidate) ==
  LET users == last_with_role(history, "user")
      original_entities ==
        IF users = {} THEN NoEntities
        ELSE history[CHOOSE i \in users : TRUE].entities
  IN [players |-> <<matched_candidate>>,
      teams   |-> <<>>,
      seasons |-> IF original_entities.seasons # <<>>
                  THEN original_entities.seasons ELSE <<>>,
      metrics |-> IF original_entities.metrics # <<>>
                  THEN original_entities.metrics ELSE <<>>,
      rounds  |-> <<>>]

\* the reply matched against the candidates of one clarification message
try_resolve_reply(user_query, content) ==
  LET parsed  == extract_candidates(content)
      matches == potential_matches(user_query, parsed.candidates)
  IN IF /\ is_clarification_question(content)
        /\ parsed.found
        /\ exactly_one(matches)
     THEN ResolvedTo(matches[1], FALSE)
     ELSE None

\* variant: the scan goes back to the most recent assistant message that is
\* a clarification question, past later answers
reply_resolution_any_entry(history, user_query) ==
  LET questions == {i \in 1..Len(history) :
                      /\ history[i].role = "assistant"
                      /\ is_clarification_question(history[i].content)}
  IN IF Len(history) >= 2 /\ questions # {}
     THEN try_resolve_reply(
            user_query,
            history[CHOOSE i \in questions : \A j \in questions : i >= j].content)
     ELSE None

\* the clarification context detection on the last assistant message
reply_resolution(history, user_query) ==
  LET assistants == last_with_role(history, "assistant")
  IN IF Len(history) >= 2 /\ assistants # {}
     THEN try_resolve_reply(user_query,
                            history[CHOOSE i \in assistants : TRUE].content)
     ELSE None

(* ------------------------------ understand_node ------------------------- *)

NotRun == Result("NotRun", <<>>, FALSE, <<>>)

\* validate_entities: the extracted player name, then the extracted team name
validate_entities(gpt) ==
  LET player == IF gpt.players = <<>> THEN NotRun
                ELSE disambiguate_player(gpt.players[1], gpt.seasons)
      team   == IF gpt.teams = <<>> THEN NotRun
                ELSE disambiguate_team(gpt.teams[1], gpt.seasons)
      kinds  == {player.kind, team.kind}
  IN [player |-> player,
      team   |-> team,
      outcome |-> IF "IndexError" \in kinds THEN "IndexError"
                  ELSE IF "NeedsClarification" \in kinds THEN "NeedsClarification"
                  ELSE "Resolved",
      message |-> IF player.kind = "NeedsClarification" THEN player.message
                  ELSE team.message]

\* the path after the clarification check: extraction by the language model
\* (its output is the input gpt), validation, and the response text
normal_extraction(user_query, gpt) ==
  LET v == validate_entities(gpt)
  IN [user_query |-> user_query,
      gpt |-> gpt,
      via |-> "extraction",
      disambiguated |-> TRUE,
      outcome |-> v.outcome,
      needs_clarification |-> v.outcome = "NeedsClarification",
      warning |-> v.player.warning \/ v.team.warning,
      entities |->
        [players |-> IF v.player.kind = "Resolved" THEN <<v.player.entity>>
                     ELSE gpt.players,
         teams   |-> IF v.team.kind = "Resolved" THEN <<v.team.entity>>
                     ELSE gpt.teams,
         seasons |-> gpt.seasons,
         metrics |-> gpt.metrics,
         rounds  |-> <<>>],
      response |-> IF v.outcome = "NeedsClarification" THEN v.message
                   ELSE IF v.outcome = "IndexError" THEN <<>>
                   ELSE AnswerText]

\* the early return of the clarification check
reply_resolved(history, user_query, gpt, matched_candidate) ==
  [user_query |-> user_query,
   gpt |-> gpt,
   via |-> "reply",
   disambiguated |-> FALSE,
   outcome |-> "Resolved",
   needs_clarification |-> FALSE,
   warning |-> FALSE,
   entities |-> reply_entities(history, matched_candidate),
   response |-> AnswerText]

\* variant: no early return, extraction and validation run after a match
understand_node_no_return(history, user_query, gpt) ==
  LET reply == reply_resolution(history, user_query)
  IN IF reply.kind = "Resolved"
     THEN [normal_extraction(user_query, gpt) EXCEPT !.via = "reply"]
     ELSE normal_extraction(user_query, gpt)

\* variant: an unmatched reply to a pending question gets the question again
understand_node_reissue(history, user_query, gpt) ==
  LET reply == reply_resolution(history, user_query)
      assistants == last_with_role(history, "assistant")
      content == IF assistants = {} THEN <<>>
                 ELSE history[CHOOSE i \in assistants : TRUE].content
  IN IF reply.kind = "Resolved"
     THEN reply_resolved(history, user_query, gpt, reply.entity)
     ELSE IF Len(history) >= 2 /\ is_clarification_question(content)
     THEN [normal_extraction(user_query, gpt) EXCEPT
             !.outcome = "NeedsClarification",
             !.needs_clarification = TRUE,
             !.response = content]
     ELSE normal_extraction(user_query, gpt)

understand_node(history, user_query, gpt) ==
  LET reply == reply_resolution(history, user_query)
  IN IF reply.kind = "Resolved"
     THEN reply_resolved(history, user_query, gpt, reply.entity)
     ELSE normal_extraction(user_query, gpt)

(* ------------------------- specification: conversation ------------------ *)

Extraction(players, teams, seasons, metrics) ==
  [players |-> players, teams |-> teams, seasons |-> seasons,
   metrics |-> metrics]

\* user messages with the structured extraction the language model returns
Utterances ==
  { [text |-> TextDaicos2025,
     gpt  |-> Extraction(<<Daicos>>, <<>>, <<S2025>>, <<Goals>>)],
    [text |-> TextDangerfield2022,
     gpt  |-> Extraction(<<Dangerfield>>, <<>>, <<S2022>>, <<Goals>>)],
    [text |-> TextJosh2022,
     gpt  |-> Extraction(<<Josh>>, <<>>, <<S2022>>, <<Goals>>)],
    [text |-> TextSmith,
     gpt  |-> Extraction(<<Smith>>, <<>>, <<>>, <<Goals>>)],
    [text |-> TextWestern2025,
     gpt  |-> Extraction(<<>>, <<Western>>, <<S2025>>, <<Wins>>)],
    [text |-> TextNickPlease,
     gpt  |-> Extraction(<<Nick>>, <<>>, <<>>, <<>>)],
    [text |-> TextDaicos,
     gpt  |-> Extraction(<<Daicos>>, <<>>, <<>>, <<>>)],
    [text |-> TextJosh,
     gpt  |-> Extraction(<<Josh>>, <<>>, <<>>, <<>>)],
    [text |-> TextBulldogs,
     gpt  |-> Extraction(<<>>, <<Bulldogs>>, <<>>, <<>>)] }

StatsOf(gordon, joshD, joshJ, joshP, nick, patrick, peter) ==
  [p \in Range(Players) |->
     CASE p = GordonDangerfield  -> gordon
       [] p = JoshDaicos         -> joshD
       [] p = JoshJKennedy       -> joshJ
       [] p = JoshPKennedy       -> joshP
       [] p = NickDaicos         -> nick
       [] p = PatrickDangerfield -> patrick
       [] OTHER                  -> peter]

\* contents of the stats table a conversation runs against
StatsTables ==
  { StatsOf({}, {S2025}, {S2022}, {S2022}, {S2025}, {S2022, S2025}, {}),
    StatsOf({S2022}, {S2022, S2025}, {S2022}, {}, {S2025}, {S2022}, {}) }

Init ==
  /\ player_stats \in StatsTables
  /\ conversation_history = <<>>
  /\ results = <<>>
  /\ call = None
  /\ ret = NotCalled
  /\ HooksIdle

Message(role, content, entities) ==
  [role |-> role, content |-> content, entities |-> entities]

\* variant: the history is kept newest first
Turn_newest_first(u) ==
  /\ call = None
  /\ Len(results) < MaxTurns
  /\ LET st == understand_node(conversation_history, u.text, u.gpt)
     IN /\ results' = Append(results, st)
        /\ conversation_history' =
             IF st.outcome = "IndexError" THEN conversation_history
             ELSE <<Message("assistant", st.response, st.entities),
                    Message("user", u.text, st.entities)>>
                    \o conversation_history
  /\ UNCHANGED <<player_stats, call, ret>>
  /\ UNCHANGED hookVars

\* one user turn: understand_node, the response, and both messages saved
Turn(u) ==
  /\ call = None
  /\ Len(results) < MaxTurns
  /\ LET st == understand_node(conversation_history, u.text, u.gpt)
     IN /\ results' = Append(results, st)
        /\ conversation_history' =
             IF st.outcome = "IndexError" THEN conversation_history
             ELSE conversation_history
                    \o <<Message("user", u.text, st.entities),
                         Message("assistant", st.response, st.entities)>>
  /\ UNCHANGED <<player_stats, call, ret>>
  /\ UNCHANGED hookVars

Next == \E u \in Utterances : Turn(u)

Spec == Init /\ [][Next]_vars

(* ------------------- specification: one reply, one entry ---------------- *)

ReplyTexts ==
  {TextNickPlease, TextNick, TextNickLower, TextJosh, TextJoshDaicosLower,
   TextNickDaicos, TextDaicos, TextPatrick, TextBulldogs, TextPlease, TextNic,
   TextDaicos2025}

RECURSIVE SubSeqs(_)
\* the subsequences of a sequence
SubSeqs(s) ==
  IF s = <<>> THEN {<<>>}
  ELSE LET rest == SubSeqs(Tail(s))
       IN rest \cup {<<Head(s)>> \o r : r \in rest}

\* the candidate lists a clarification can ask about: two or more of the rows
\* one name query returns
PlayerEntries ==
  UNION {{[noun |-> PlayerNoun, name |-> n, seasons |-> s, candidates |-> c] :
            c \in {x \in SubSeqs(query_like(Players, n)) : Len(x) >= 2}} :
         n \in PlayerQueries, s \in {<<>>, <<S2025>>}}

TeamEntries ==
  {[noun |-> TeamNoun, name |-> Western, seasons |-> <<S2025>>,
    candidates |-> Teams]}

EntryText(e) == clarification_text(e.noun, e.name, e.seasons, e.candidates)

InitReply ==
  /\ call \in [fn : {"try_resolve_reply"}, text : ReplyTexts,
               entry : PlayerEntries \cup TeamEntries]
  /\ player_stats \in StatsTables
  /\ ret = NotCalled
  /\ conversation_history = <<>>
  /\ results = <<>>
  /\ HooksIdle

CallReply ==
  /\ call.fn = "try_resolve_reply"
  /\ ret = NotCalled
  /\ ret' = try_resolve_reply(call.text, EntryText(call.entry))
  /\ UNCHANGED <<player_stats, conversation_history, results, call>>
  /\ UNCHANGED hookVars

NextReply == CallReply

SpecReply == InitReply /\ [][NextReply]_vars

(* ------------- specification: one reply with a filler appended ---------- *)

FillerReplyTexts == ReplyTexts \cup {TextEmpty, TextNickSpace}

InitFiller ==
  /\ call \in [fn : {"try_resolve_reply_filler"}, text : FillerReplyTexts,
               filler : Range(Fillers), entry : PlayerEntries \cup TeamEntries]
  /\ player_stats \in StatsTables
  /\ ret = NotCalled
  /\ conversation_history = <<>>
  /\ results = <<>>
  /\ HooksIdle

\* the user's reply is the text followed by one filler of the list
CallReplyFiller ==
  /\ call.fn = "try_resolve_reply_filler"
  /\ ret = NotCalled
  /\ ret' = try_resolve_reply(call.text \o call.filler, EntryText(call.entry))
  /\ UNCHANGED <<player_stats, conversation_history, results, call>>
  /\ UNCHANGED hookVars

NextFiller == CallReplyFiller

SpecFiller == InitFiller /\ [][NextFiller]_vars

(* ------------- specification: a call with a failing lookup -------------- *)

\* the exception of a failed database call, as the caller receives it
LookupUnavailable == Result("LookupUnavailable", <<>>, FALSE, <<>>)

\* what can fail in one call: the name query, and the activity check of
\* each player it is made for
AdapterFaults(name) ==
  [query : BOOLEAN, stats : SUBSET MatchedPlayers[name]]

\* variant: failures are caught; a failed name query counts as no rows and
\* a failed activity check as "not active"
disambiguate_lookup_swallow(table, stats, noun, name, seasons, faults) ==
  disambiguate(IF faults.query THEN <<>> ELSE table,
               [p \in DOMAIN stats |->
                  IF p \in faults.stats THEN {} ELSE stats[p]],
               noun, name, seasons)

\* _disambiguate_player with database calls that can raise: nothing in the
\* function catches, so the first failing call ends it with the exception.
\* The activity checks run only when the query did not return one row.
disambiguate_lookup(table, stats, noun, name, seasons, faults) ==
  LET all_matches == query_like(table, name)
  IN IF faults.query THEN LookupUnavailable
     ELSE IF Len(all_matches) = 1 THEN ResolvedTo(all_matches[1], FALSE)
     ELSE IF \E i \in DOMAIN all_matches : all_matches[i] \in faults.stats
          THEN LookupUnavailable
     ELSE disambiguate(table, stats, noun, name, seasons)

InitLookup ==
  /\ call \in UNION {[fn : {"disambiguate_player_lookup"}, name : {n},
                      seasons : SeasonLists, faults : AdapterFaults(n)] :
                     n \in PlayerQueries}
  /\ player_stats \in StatsTables
  /\ ret = NotCalled
  /\ conversation_history = <<>>
  /\ results = <<>>
  /\ HooksIdle

CallLookup ==
  /\ call.fn = "disambiguate_player_lookup"
  /\ ret = NotCalled
  /\ ret' = disambiguate_lookup(Players, player_stats, PlayerNoun, call.name,
                                call.seasons, call.faults)
  /\ UNCHANGED <<player_stats, conversation_history, results, call>>
  /\ UNCHANGED hookVars

NextLookup == CallLookup

SpecLookup == InitLookup /\ [][NextLookup]_vars

(* --------- specification: saving assistant messages with metadata ------- *)

MaxSaved == 2

\* turns per conversation when several conversations run side by side
MaxConvTurns == 2

\* Python values of the agent state, tagged with their type
PyStr(s) == [type |-> "str", val |-> s]

PyInt(n) == [type |-> "int", val |-> n]

PyFloat(s) == [type |-> "float", val |-> s]

PyDecimal(s) == [type |-> "Decimal", val |-> s]

PyTimestamp(d, tm) == [type |-> "Timestamp", date |-> d, time |-> tm]

PyDatetime(d, tm) == [type |-> "datetime", date |-> d, time |-> tm]

PyDate(d) == [type |-> "date", date |-> d]

PyList(items) == [type |-> "list", items |-> items]

PyDict(keys, vals) == [type |-> "dict", keys |-> keys, vals |-> vals]

EmptyDict == PyDict(<<>>, <<>>)

DateMatch == <<"2","0","2","2","-","0","9","-","2","4">>

TimeMatch == <<"1","4",":","3","0",":","0","0">>

DateCreated == <<"2","0","2","6","-","0","1","-","2","6">>

TimeCreated == <<"2","0",":","2","1",":","3","1",".","7","5","3","5","0","1">>

DateRound == <<"2","0","2","2","-","0","3","-","2","0">>

TimeMidnight == <<"0","0",":","0","0",":","0","0">>

GoalsAverage == <<"1",".","5">>

\* datetime.isoformat() / Timestamp.isoformat(): date, 'T', time
isoformat(v) ==
  IF v.type = "date" THEN v.date ELSE v.date \o <<"T">> \o v.time

RECURSIVE make_json_serializable(_)
\* datetime/date/Timestamp -> ISO format string, Decimal -> float, and the
\* same for every item of a list and every value of a dict
make_json_serializable(obj) ==
  CASE obj.type \in {"Timestamp", "datetime", "date"} -> PyStr(isoformat(obj))
    [] obj.type = "Decimal" -> PyFloat(obj.val)
    [] obj.type = "list" ->
         PyList([i \in DOMAIN obj.items |->
                   make_json_serializable(obj.items[i])])
    [] obj.type = "dict" ->
         PyDict(obj.keys,
                [i \in DOMAIN obj.vals |-> make_json_serializable(obj.vals[i])])
    [] OTHER -> obj

RECURSIVE json_dumps_ok(_)
\* json.dumps(obj) returns; otherwise it raises
\* "TypeError: Object of type ... is not JSON serializable"
json_dumps_ok(obj) ==
  CASE obj.type \in {"str", "int", "float"} -> TRUE
    [] obj.type = "list" ->
         \A i \in DOMAIN obj.items : json_dumps_ok(obj.items[i])
    [] obj.type = "dict" ->
         \A i \in DOMAIN obj.vals : json_dumps_ok(obj.vals[i])
    [] OTHER -> FALSE

\* final_state.get("entities", {})
get_entities(final_state) ==
  IF "entities" \in DOMAIN final_state THEN final_state.entities ELSE EmptyDict

\* the metadata as built before the fix: entities passed as they are
websocket_metadata_unsanitized(final_state) ==
  [entities   |-> get_entities(final_state),
   intent     |-> final_state.intent,
   confidence |-> final_state.confidence]

\* metadata = {"entities": make_json_serializable(...), "intent": ...,
\*             "confidence": ...}
websocket_metadata(final_state) ==
  [entities   |-> make_json_serializable(get_entities(final_state)),
   intent     |-> final_state.intent,
   confidence |-> final_state.confidence]

Saved == Result("Saved", <<>>, FALSE, <<>>)

TypeError == Result("TypeError", <<>>, FALSE, <<>>)

\* values a database result puts into the entities
Leaves ==
  {PyStr(PatrickDangerfield), PyInt(2), PyDecimal(GoalsAverage),
   PyTimestamp(DateMatch, TimeMatch), PyDatetime(DateCreated, TimeCreated),
   PyDate(DateRound)}

StatRows == {PyDict(<<"date", "goals">>, <<x, PyInt(2)>>) : x \in Leaves}

NestedValues ==
  {PyDict(<<"player_dob", "stats">>, <<x, PyList(<<r>>)>>) :
     x \in {PyStr(PatrickDangerfield), PyTimestamp(DateRound, TimeMidnight)},
     r \in StatRows}

EntityValues ==
  {PyDict(<<"players", "match_date">>,
          <<PyList(<<PyStr(PatrickDangerfield)>>), x>>) : x \in Leaves}
  \cup
  {PyDict(<<"created_at", "nested">>, <<x, n>>) :
     x \in {PyInt(2), PyDatetime(DateCreated, TimeCreated)},
     n \in NestedValues}

\* the agent's final state, with and without an "entities" key
FinalStates ==
  [entities : EntityValues, intent : {"stats_query"}, confidence : {1}]
  \cup [intent : {"stats_query"}, confidence : {1}]

InitSave ==
  /\ player_stats \in StatsTables
  /\ conversation_history = <<>>
  /\ results = <<>>
  /\ call = None
  /\ ret = NotCalled
  /\ HooksIdle

\* the handler saves the assistant response of a finished turn;
\* add_message stores the metadata as JSON
SaveAssistantMessage(final_state) ==
  /\ Len(results) < MaxSaved
  /\ LET metadata == websocket_metadata(final_state)
     IN /\ call' = [fn |-> "add_message", final_state |-> final_state]
        /\ results' = Append(results, metadata)
        /\ IF json_dumps_ok(metadata.entities)
           THEN /\ conversation_history' =
                     Append(conversation_history,
                            Message("assistant", AnswerText, metadata.entities))
                /\ ret' = Saved
           ELSE /\ conversation_history' = conversation_history
                /\ ret' = TypeError
  /\ UNCHANGED player_stats
  /\ UNCHANGED hookVars

NextSave == \E final_state \in FinalStates : SaveAssistantMessage(final_state)

SpecSave == InitSave /\ [][NextSave]_vars

(* ------------- specification: one reply, one list of candidates --------- *)

MatchTexts ==
  ReplyTexts \cup {TextEmpty, TextNickSpace, TextDaicosNick, TextNickUpper,
                   TextComma}

InitMatch ==
  /\ call \in [fn : {"potential_matches"}, text : MatchTexts,
               entry : PlayerEntries \cup TeamEntries]
  /\ player_stats \in StatsTables
  /\ ret = NotCalled
  /\ conversation_history = <<>>
  /\ results = <<>>
  /\ HooksIdle

\* the cleaning of the reply and the loop over the candidates
CallMatch ==
  /\ call.fn = "potential_matches"
  /\ ret = NotCalled
  /\ ret' = [kind |-> "potential_matches",
             matches |-> potential_matches(call.text, call.entry.candidates)]
  /\ UNCHANGED <<player_stats, conversation_history, results, call>>
  /\ UNCHANGED hookVars

NextMatch == CallMatch

SpecMatch == InitMatch /\ [][NextMatch]_vars

(* ------------- specification: conversations side by side --------------- *)

Conversations == {"c1", "c2"}

ConvUtterances ==
  {u \in Utterances :
     u.text \in {TextDaicos2025, TextNickPlease, TextWestern2025}}

\* every conversation starts with no messages
InitConversations ==
  /\ player_stats \in StatsTables
  /\ conversation_history = [c \in Conversations |-> <<>>]
  /\ results = [c \in Conversations |-> <<>>]
  /\ call = None
  /\ ret = NotCalled
  /\ HooksIdle

\* variant: the history handed to understand_node holds the messages of
\* every conversation
TurnIn_shared_history(conversation_id, u) ==
  /\ Len(results[conversation_id]) < MaxConvTurns
  /\ LET others == CHOOSE c \in Conversations : c # conversation_id
         st == understand_node(
                 conversation_history[conversation_id]
                   \o conversation_history[others], u.text, u.gpt)
     IN /\ results' = [results EXCEPT
                         ![conversation_id] = Append(@, st)]
        /\ conversation_history' =
             IF st.outcome = "IndexError" THEN conversation_history
             ELSE [conversation_history EXCEPT
                     ![conversation_id] =
                        @ \o <<Message("user", u.text, st.entities),
                               Message("assistant", st.response, st.entities)>>]
  /\ UNCHANGED <<player_stats, call, ret>>
  /\ UNCHANGED hookVars

\* one user turn of the conversation conversation_id: its own history goes
\* into understand_node, both messages are saved under its id
TurnIn(conversation_id, u) ==
  /\ Len(results[conversation_id]) < MaxConvTurns
  /\ LET st == understand_node(conversation_history[conversation_id],
                               u.text, u.gpt)
     IN /\ results' = [results EXCEPT
                         ![conversation_id] = Append(@, st)]
        /\ conversation_history' =
             IF st.outcome = "IndexError" THEN conversation_history
             ELSE [conversation_history EXCEPT
                     ![conversation_id] =
                        @ \o <<Message("user", u.text, st.entities),
                               Message("assistant", st.response, st.entities)>>]
  /\ UNCHANGED <<player_stats, call, ret>>
  /\ UNCHANGED hookVars

NextConversations ==
  \E conversation_id \in Conversations, u \in ConvUtterances :
    TurnIn(conversation_id, u)

SpecConversations == InitConversations /\ [][NextConversations]_vars

(* ---------- specification: turns that mention a player and a team ------- *)

\* user messages naming a player, a team, or both
RoleUtterances ==
  { [text |-> TextStack,
     gpt  |-> Extraction(<<Stack>>, <<>>, <<>>, <<Goals>>)],
    [text |-> TextSydney,
     gpt  |-> Extraction(<<>>, <<Sydney>>, <<>>, <<>>)],
    [text |-> TextDaicosWestern2025,
     gpt  |-> Extraction(<<Daicos>>, <<Western>>, <<S2025>>, <<Goals>>)],
    [text |-> TextNickPlease,
     gpt  |-> Extraction(<<Nick>>, <<>>, <<>>, <<>>)],
    [text |-> TextBulldogs,
     gpt  |-> Extraction(<<>>, <<Bulldogs>>, <<>>, <<>>)],
    [text |-> TextWestern2025,
     gpt  |-> Extraction(<<>>, <<Western>>, <<S2025>>, <<Wins>>)] }

\* stats tables in which both players named Stack have rows
RoleStatsTables ==
  {[t EXCEPT ![SydneyStack] = {S2025}, ![TomStack] = {S2022, S2025}] :
     t \in StatsTables}

InitRoles ==
  /\ player_stats \in RoleStatsTables
  /\ conversation_history = <<>>
  /\ results = <<>>
  /\ call = None
  /\ ret = NotCalled
  /\ HooksIdle

NextRoles == \E u \in RoleUtterances : Turn(u)

SpecRoles == InitRoles /\ [][NextRoles]_vars

(* ------------------- specification: useGameLoop ------------------------ *)

\* frame timestamps and animation frame handles of a run
MaxTime == 4

MaxHandles == 4

\* the functions passed as onTick
Callbacks == {"onTickA", "onTickB"}

\* the state after the first render: refs initialised, no effect run yet
InitGameLoop ==
  /\ player_stats = <<>>
  /\ conversation_history = <<>>
  /\ results = <<>>
  /\ call = None
  /\ ret = NotCalled
  /\ isRunning \in BOOLEAN
  /\ onTick \in Callbacks
  /\ mounted = TRUE
  /\ effectDeps = <<>>
  /\ tickDeps = <<>>
  /\ requestRef = Undefined
  /\ previousTimeRef = Undefined
  /\ onTickRef = onTick
  /\ frameRequests = {}
  /\ nextHandle = 1
  /\ now = 0
  /\ ticks = <<>>
  /\ frames = <<>>
  /\ KeysIdle
  /\ AnalyticsIdle

cancelAnimationFrame(pending, handle) == pending \ {handle}

\* if (requestRef.current) cancelAnimationFrame(requestRef.current)
cancel_current(pending) ==
  IF requestRef # Undefined THEN cancelAnimationFrame(pending, requestRef)
  ELSE pending

\* passive effects are flushed before the next render or unmount is committed
EffectsFlushed == effectDeps = <<isRunning>> /\ tickDeps = <<onTick>>

\* a render with new props is committed; its effects run later
Render(running, callback) ==
  /\ mounted
  /\ EffectsFlushed
  /\ <<running, callback>> # <<isRunning, onTick>>
  /\ isRunning' = running
  /\ onTick' = callback
  /\ UNCHANGED <<mounted, effectDeps, tickDeps, requestRef, previousTimeRef,
                 onTickRef, frameRequests, nextHandle, now, ticks, frames>>
  /\ UNCHANGED <<chatVars, keyVars, analyticsVars>>

\* the effects of the committed render: the cleanup of the loop effect when
\* isRunning changed, then the onTickRef effect, then the loop effect
FlushPassiveEffects ==
  /\ mounted
  /\ ~EffectsFlushed
  /\ LET loopEffect == effectDeps # <<isRunning>>
         cleaned == IF loopEffect /\ effectDeps # <<>>
                    THEN cancel_current(frameRequests)
                    ELSE frameRequests
     IN /\ onTickRef' = IF tickDeps # <<onTick>> THEN onTick ELSE onTickRef
        /\ tickDeps' = <<onTick>>
        /\ effectDeps' = <<isRunning>>
        /\ IF loopEffect /\ isRunning
           THEN /\ nextHandle <= MaxHandles
                /\ previousTimeRef' = Undefined
                /\ requestRef' = nextHandle
                /\ frameRequests' = cleaned \cup {nextHandle}
                /\ nextHandle' = nextHandle + 1
                /\ frames' = Append(frames, [kind |-> "start", time |-> now])
           ELSE /\ frameRequests' =
                     IF loopEffect
                     THEN (IF requestRef # Undefined
                           THEN cancelAnimationFrame(cleaned, requestRef)
                           ELSE cleaned)
                     ELSE cleaned
                /\ UNCHANGED <<previousTimeRef, requestRef, nextHandle, frames>>
  /\ UNCHANGED <<isRunning, onTick, mounted, now, ticks>>
  /\ UNCHANGED <<chatVars, keyVars, analyticsVars>>

\* the browser runs the callback of a pending request at the next frame
animate(handle, time) ==
  /\ handle \in frameRequests
  /\ nextHandle <= MaxHandles
  /\ ticks' = IF previousTimeRef # Undefined
              THEN Append(ticks, [callback  |-> onTickRef,
                                  deltaTime |-> time - previousTimeRef,
                                  time      |-> time,
                                  isRunning |-> isRunning,
                                  onTick    |-> onTick,
                                  mounted   |-> mounted])
              ELSE ticks
  /\ frames' = Append(frames, [kind |-> "frame", time |-> time])
  /\ previousTimeRef' = time
  /\ requestRef' = nextHandle
  /\ frameRequests' = (frameRequests \ {handle}) \cup {nextHandle}
  /\ nextHandle' = nextHandle + 1
  /\ now' = time
  /\ UNCHANGED <<isRunning, onTick, mounted, effectDeps, tickDeps, onTickRef>>
  /\ UNCHANGED <<chatVars, keyVars, analyticsVars>>

\* the component is removed; the cleanup of the loop effect runs later
Unmount ==
  /\ mounted
  /\ EffectsFlushed
  /\ mounted' = FALSE
  /\ UNCHANGED <<isRunning, onTick, effectDeps, tickDeps, requestRef,
                 previousTimeRef, onTickRef, frameRequests, nextHandle, now,
                 ticks, frames>>
  /\ UNCHANGED <<chatVars, keyVars, analyticsVars>>

\* the cleanup of the loop effect after the unmount
FlushUnmountCleanup ==
  /\ ~mounted
  /\ effectDeps # <<>>
  /\ frameRequests' = cancel_current(frameRequests)
  /\ effectDeps' = <<>>
  /\ tickDeps' = <<>>
  /\ UNCHANGED <<isRunning, onTick, mounted, requestRef, previousTimeRef,
                 onTickRef, nextHandle, now, ticks, frames>>
  /\ UNCHANGED <<chatVars, keyVars, analyticsVars>>

NextGameLoop ==
  \/ \E running \in BOOLEAN, callback \in Callbacks : Render(running, callback)
  \/ FlushPassiveEffects
  \/ \E handle \in frameRequests, time \in (now + 1)..MaxTime :
       animate(handle, time)
  \/ Unmount
  \/ FlushUnmountCleanup

SpecGameLoop == InitGameLoop /\ [][NextGameLoop]_vars

(* ---------------- specification: useCharacterController ---------------- *)

\* onJump calls kept in the log of a run
MaxJumps == 2

ArrowKeys == {"ArrowLeft", "ArrowRight"}

JumpKeys == {" ", "Spacebar"}

\* the keys of the keyboard events: the arrows, the jump keys, another key
Keys == ArrowKeys \cup JumpKeys \cup {"a"}

\* the state after the first render: useState(new Set()), no effect run yet
InitController ==
  /\ player_stats = <<>>
  /\ conversation_history = <<>>
  /\ results = <<>>
  /\ call = None
  /\ ret = NotCalled
  /\ LoopIdle
  /\ AnalyticsIdle
  /\ disabled \in BOOLEAN
  /\ keysPressed = {}
  /\ listenerDeps = <<>>
  /\ clearDeps = <<>>
  /\ pendingClear = FALSE
  /\ jumps = <<>>
  /\ controllerMounted = TRUE

\* the effects of the last render have run and no state update is queued
ControllerSettled ==
  /\ listenerDeps = <<disabled>>
  /\ clearDeps = <<disabled>>
  /\ ~pendingClear

\* a render with a new disabled prop is committed; its effects run later
RenderDisabled(d) ==
  /\ controllerMounted
  /\ ControllerSettled
  /\ d # disabled
  /\ disabled' = d
  /\ UNCHANGED <<keysPressed, listenerDeps, clearDeps, pendingClear, jumps,
                 controllerMounted>>
  /\ UNCHANGED <<chatVars, loopVars, analyticsVars>>

\* the effects of the committed render: the listeners are removed and added
\* again with the new handleKeyDown, and the clearing effect runs
FlushControllerEffects ==
  /\ controllerMounted
  /\ (listenerDeps # <<disabled>> \/ clearDeps # <<disabled>>)
  /\ listenerDeps' = <<disabled>>
  /\ clearDeps' = <<disabled>>
  /\ pendingClear' = (pendingClear \/ (clearDeps # <<disabled>> /\ disabled))
  /\ UNCHANGED <<disabled, keysPressed, jumps, controllerMounted>>
  /\ UNCHANGED <<chatVars, loopVars, analyticsVars>>

\* the render of the queued setKeysPressed(new Set())
RenderClear ==
  /\ controllerMounted
  /\ pendingClear
  /\ keysPressed' = {}
  /\ pendingClear' = FALSE
  /\ UNCHANGED <<disabled, listenerDeps, clearDeps, jumps, controllerMounted>>
  /\ UNCHANGED <<chatVars, loopVars, analyticsVars>>

\* a keydown event reaches the attached listener; the state update is
\* rendered with the event
handleKeyDown(key) ==
  /\ listenerDeps # <<>>
  /\ Len(jumps) < MaxJumps
  /\ IF listenerDeps[1]
     THEN UNCHANGED <<keysPressed, jumps>>
     ELSE /\ keysPressed' = IF key \in ArrowKeys /\ controllerMounted
                            THEN keysPressed \cup {key}
                            ELSE keysPressed
          /\ jumps' = IF key \in JumpKeys
                      THEN Append(jumps, [key |-> key, disabled |-> disabled])
                      ELSE jumps
  /\ UNCHANGED <<disabled, listenerDeps, clearDeps, pendingClear,
                 controllerMounted>>
  /\ UNCHANGED <<chatVars, loopVars, analyticsVars>>

\* a keyup event reaches the attached listener
handleKeyUp(key) ==
  /\ listenerDeps # <<>>
  /\ keysPressed' = IF key \in ArrowKeys /\ controllerMounted
                    THEN keysPressed \ {key}
                    ELSE keysPressed
  /\ UNCHANGED <<disabled, listenerDeps, clearDeps, pendingClear, jumps,
                 controllerMounted>>
  /\ UNCHANGED <<chatVars, loopVars, analyticsVars>>

\* the component is removed; the listeners are removed by the cleanup later
UnmountController ==
  /\ controllerMounted
  /\ ControllerSettled
  /\ controllerMounted' = FALSE
  /\ UNCHANGED <<disabled, keysPressed, listenerDeps, clearDeps, pendingClear,
                 jumps>>
  /\ UNCHANGED <<chatVars, loopVars, analyticsVars>>

\* the cleanup after the unmount: removeEventListener for both listeners
FlushControllerCleanup ==
  /\ ~controllerMounted
  /\ listenerDeps # <<>>
  /\ listenerDeps' = <<>>
  /\ clearDeps' = <<>>
  /\ UNCHANGED <<disabled, keysPressed, pendingClear, jumps,
                 controllerMounted>>
  /\ UNCHANGED <<chatVars, loopVars, analyticsVars>>

NextController ==
  \/ \E d \in BOOLEAN : RenderDisabled(d)
  \/ FlushControllerEffects
  \/ RenderClear
  \/ \E key \in Keys : handleKeyDown(key)
  \/ \E key \in Keys : handleKeyUp(key)
  \/ UnmountController
  \/ FlushControllerCleanup

SpecController == InitController /\ [][NextController]_vars

(* --------------------- specification: useAnalytics ---------------------- *)

\* committed renders of a run
MaxVisits == 3

\* route paths of the app
Paths == {"/", "/about"}

\* values `${Date.now()}-${Math.random()...}` can give
FreshIds == {"v1", "v2"}

\* the state after the first render; the browser may hold a visitor id of
\* an earlier session
InitAnalytics ==
  /\ player_stats = <<>>
  /\ conversation_history = <<>>
  /\ results = <<>>
  /\ call = None
  /\ ret = NotCalled
  /\ LoopIdle
  /\ KeysIdle
  /\ pathname \in Paths
  /\ trackDeps = <<>>
  /\ lastTrackedPath = Null
  /\ visitorStore \in {Null, "v0"}
  /\ requests = <<>>
  /\ visits = <<pathname>>

\* the stored id, or a fresh one that is stored
getOrCreateVisitorId(store, fresh) ==
  IF store = Null THEN [visitorId |-> fresh, store |-> fresh]
  ELSE [visitorId |-> store, store |-> store]

\* variant: the effect tracks on every run
already_tracked_never(last, path) == FALSE

\* if (lastTrackedPath.current === location.pathname) return
already_tracked(last, path) == last = path

\* the body of the tracking effect
track(fresh) ==
  IF already_tracked(lastTrackedPath, pathname)
  THEN UNCHANGED <<lastTrackedPath, visitorStore, requests>>
  ELSE LET v == getOrCreateVisitorId(visitorStore, fresh)
       IN /\ lastTrackedPath' = pathname
          /\ visitorStore' = v.store
          /\ requests' = Append(requests, [visitor_id |-> v.visitorId,
                                           page       |-> pathname,
                                           status     |-> "pending"])

\* a render is committed, on a new path or on the same one
Navigate(path) ==
  /\ pathname # Null
  /\ trackDeps = <<pathname>>
  /\ Len(visits) < MaxVisits
  /\ pathname' = path
  /\ visits' = Append(visits, path)
  /\ UNCHANGED <<trackDeps, lastTrackedPath, visitorStore, requests>>
  /\ UNCHANGED <<chatVars, loopVars, keyVars>>

\* the tracking effect of a render whose pathname differs from the one of
\* the effect's last run
FlushTrackEffect ==
  /\ pathname # Null
  /\ trackDeps # <<pathname>>
  /\ \E fresh \in FreshIds : track(fresh)
  /\ trackDeps' = <<pathname>>
  /\ UNCHANGED <<pathname, visits>>
  /\ UNCHANGED <<chatVars, loopVars, keyVars>>

\* React runs the effect once more with the refs kept (StrictMode)
RerunTrackEffect ==
  /\ pathname # Null
  /\ trackDeps = <<pathname>>
  /\ \E fresh \in FreshIds : track(fresh)
  /\ UNCHANGED <<pathname, trackDeps, visits>>
  /\ UNCHANGED <<chatVars, loopVars, keyVars>>

\* the fetch promise of request i settles; a rejection goes to .catch
FetchSettles(i, ok) ==
  /\ i \in DOMAIN requests
  /\ requests[i].status = "pending"
  /\ requests' = [requests EXCEPT ![i].status = IF ok THEN "ok" ELSE "caught"]
  /\ UNCHANGED <<pathname, trackDeps, lastTrackedPath, visitorStore, visits>>
  /\ UNCHANGED <<chatVars, loopVars, keyVars>>

NextAnalytics ==
  \/ \E path \in Paths : Navigate(path)
  \/ FlushTrackEffect
  \/ RerunTrackEffect
  \/ \E i \in DOMAIN requests, ok \in BOOLEAN : FetchSettles(i, ok)

SpecAnalytics == InitAnalytics /\ [][NextAnalytics]_vars

(* ================================ claims ================================ *)

\* the last turn before turn k that saved its messages, or 0
PrevSaved(k) ==
  LET saved == {j \in 1..(k - 1) : results[j].outcome # "IndexError"}
  IN IF saved = {} THEN 0 ELSE CHOOSE j \in saved : \A i \in saved : j >= i

ViaReply(k) == results[k].via = "reply"

\* positions of the entry's candidates that match the reply of the call
MatchingCandidates ==
  {i \in DOMAIN call.entry.candidates :
     candidate_matches(clean_response(call.text), call.entry.candidates[i])}

\* C1: try_resolve_reply returns Resolved(c) only when c is the single
\* candidate of the entry that matches the normalized reply; with zero or with
\* two or more matching candidates it returns None.
C1_ResolvedOnlyOnUniqueMatch ==
  (call # None /\ ret # NotCalled) =>
    /\ ret.kind \in {"Resolved", "None"}
    /\ ret.kind = "Resolved" =>
         /\ Cardinality(MatchingCandidates) = 1
         /\ \A i \in MatchingCandidates : ret.entity = call.entry.candidates[i]
    /\ Cardinality(MatchingCandidates) # 1 => ret = None

\* a reply that matches two candidates of the entry was answered with None
C1_Witness ==
  /\ call # None
  /\ ret = None
  /\ Cardinality(MatchingCandidates) >= 2

\* C2: a turn resolved via a clarification reply carries the seasons and the
\* metrics of the query that triggered the clarification; seasons that were
\* not empty there are not empty in the resolved turn.
C2_ContextCarriedOver ==
  \A k \in 1..Len(results) :
    ViaReply(k) =>
      /\ PrevSaved(k) # 0
      /\ results[PrevSaved(k)].needs_clarification
      /\ results[k].entities.seasons = results[PrevSaved(k)].gpt.seasons
      /\ results[k].entities.metrics = results[PrevSaved(k)].gpt.metrics
      /\ results[PrevSaved(k)].gpt.seasons # <<>> =>
           results[k].entities.seasons # <<>>

\* a reply turn that recovered season 2025 and metric goals
C2_Witness ==
  \E k \in 1..Len(results) :
    /\ ViaReply(k)
    /\ results[k].entities.seasons = <<S2025>>
    /\ results[k].entities.metrics = <<Goals>>

\* C3: a turn resolved by the reply resolver does not run the disambiguator
\* and does not ask a clarification question.
C3_NoDoubleAsk ==
  \A k \in 1..Len(results) :
    ViaReply(k) =>
      /\ results[k].outcome = "Resolved"
      /\ ~results[k].needs_clarification
      /\ ~results[k].disambiguated
      /\ ~is_clarification_question(results[k].response)

\* a reply turn whose own text, taken as a new query, would have been ambiguous
C3_Witness ==
  \E k \in 1..Len(results) :
    /\ ViaReply(k)
    /\ results[k].gpt.players # <<>>
    /\ normal_extraction(results[k].user_query, results[k].gpt).needs_clarification

\* candidates matching the name with stats in a requested season, in table order
ActiveCandidates(name, seasons) ==
  SelectSeq(Players,
            LAMBDA p : /\ Contains(Lower(p), Lower(name))
                       /\ player_stats[p] \cap Range(seasons) # {})

\* C4: when the first turn's player name has two or more candidates active in
\* the requested seasons and the second turn's text matches exactly one of
\* them, the first turn asks about those candidates and the second turn is
\* resolved to the matched one with the first turn's seasons and metrics.
C4_TwoTurnScenario ==
  Len(results) >= 2 =>
    LET first  == results[1]
        second == results[2]
        active == ActiveCandidates(first.gpt.players[1], first.gpt.seasons)
        hit    == matches_of(clean_response(second.user_query), active)
    IN (/\ first.gpt.players # <<>>
        /\ first.gpt.seasons # <<>>
        /\ Len(active) >= 2
        /\ Len(hit) = 1) =>
         /\ first.outcome = "NeedsClarification"
         /\ first.response =
              clarification_text(PlayerNoun, first.gpt.players[1],
                                 first.gpt.seasons, active)
         /\ second.outcome = "Resolved"
         /\ second.entities.players = hit
         /\ second.entities.seasons = first.gpt.seasons
         /\ second.entities.metrics = first.gpt.metrics

\* C5: a reply is resolved only against the candidates of the most recent
\* clarification; an earlier, superseded clarification is never matched.
C5_OnlyLatestEntryMatched ==
  \A k \in 1..Len(results) :
    ViaReply(k) =>
      /\ PrevSaved(k) # 0
      /\ results[PrevSaved(k)].needs_clarification
      /\ results[k].entities.players[1] \in
           Range(extract_candidates(results[PrevSaved(k)].response).candidates)

\* two clarifications in a row for the player role, then a reply that resolved
C5_Witness ==
  \E k \in 3..Len(results) :
    /\ ViaReply(k)
    /\ results[k - 1].needs_clarification
    /\ results[k - 2].needs_clarification
    /\ Contains(Lower(results[k - 1].response), WhichPlayer)
    /\ Contains(Lower(results[k - 2].response), WhichPlayer)

\* the clarification questions the next turn would match a reply against
OpenEntries(question) ==
  {i \in last_with_role(conversation_history, "assistant") :
     Contains(Lower(conversation_history[i].content), question)}

C7_TeamReplyFillsTeamSlot ==
  \A k \in 1..Len(results) :
    (/\ ViaReply(k)
     /\ PrevSaved(k) # 0
     /\ Contains(Lower(results[PrevSaved(k)].response), WhichTeam)) =>
      /\ results[k].entities.players = <<>>
      /\ Len(results[k].entities.teams) = 1
      /\ results[k].entities.teams[1] \in Range(Teams)

\* C8: a name with exactly one matching player is resolved to that player,
\* for every list of seasons and whatever stats the player has.
C8_SingleCandidateResolved ==
  (call # None /\ ret # NotCalled /\ Cardinality(MatchedPlayers[call.name]) = 1) =>
    \A p \in MatchedPlayers[call.name] : ret = ResolvedTo(p, FALSE)

\* the single candidate has no stats at all and seasons were requested
C8_Witness ==
  /\ call # None
  /\ ret.kind = "Resolved"
  /\ Cardinality(MatchedPlayers[call.name]) = 1
  /\ call.seasons # <<>>
  /\ \A p \in MatchedPlayers[call.name] : player_stats[p] = {}

\* matched players with stats in at least one requested season
ActiveSet ==
  {p \in MatchedPlayers[call.name] :
     player_stats[p] \cap Range(call.seasons) # {}}

\* C9: with two or more candidates and requested seasons, a single candidate
\* active in a requested season is the resolution, wherever it stands in the
\* lookup order.
C9_SingleActiveResolved ==
  (/\ call # None
   /\ ret # NotCalled
   /\ Cardinality(MatchedPlayers[call.name]) >= 2
   /\ call.seasons # <<>>
   /\ Cardinality(ActiveSet) = 1) =>
    \A p \in ActiveSet : ret = ResolvedTo(p, FALSE)

\* Dangerfield: Patrick resolved although Gordon is first in lookup order
C9_Witness ==
  /\ call # None
  /\ call.name = Dangerfield
  /\ call.seasons = <<S2022>>
  /\ ActiveSet = {PatrickDangerfield}
  /\ ret = ResolvedTo(PatrickDangerfield, FALSE)

\* C10: with requested seasons and two or more active candidates the result
\* is a clarification listing exactly the active candidates in lookup order.
C10_ClarificationListsActive ==
  (/\ call # None
   /\ ret # NotCalled
   /\ call.seasons # <<>>
   /\ Cardinality(ActiveSet) >= 2) =>
    ret = NeedsClarification(
            clarification_text(PlayerNoun, call.name, call.seasons,
                               SelectSeq(Players, LAMBDA p : p \in ActiveSet)))

\* a clarification that leaves out an inactive namesake listed before an
\* active one
C10_Witness ==
  /\ call # None
  /\ ret.kind = "NeedsClarification"
  /\ call.seasons # <<>>
  /\ \E i, j \in DOMAIN Players :
       /\ i < j
       /\ Players[i] \in MatchedPlayers[call.name] \ ActiveSet
       /\ Players[j] \in ActiveSet

\* the matched players in lookup order
MatchedInOrder == query_like(Players, call.name)

\* C11: a name that matches no player yields the Unresolved result as a
\* value, for every list of seasons: no Resolved, no NeedsClarification, no
\* error.
C11_ZeroCandidatesUnresolved ==
  (call # None /\ ret # NotCalled /\ MatchedPlayers[call.name] = {}) =>
    ret.kind = "Unresolved"

\* two or more matches, seasons requested, none of the matches active in them
ZeroActiveCase ==
  /\ Cardinality(MatchedPlayers[call.name]) >= 2
  /\ call.seasons # <<>>
  /\ ActiveSet = {}

\* C12: with two or more candidates, requested seasons and no candidate
\* active in them the result is Resolved with the first candidate in lookup
\* order and carries the low-confidence flag; no other Resolved result
\* carries the flag.
C12_ZeroActiveLowConfidence ==
  (call # None /\ ret # NotCalled) =>
    /\ ZeroActiveCase => ret = ResolvedTo(MatchedInOrder[1], TRUE)
    /\ (ret.kind = "Resolved" /\ ~ZeroActiveCase) => ~ret.warning

\* matched players with a stats row in any season
WithAnyStats == {p \in MatchedPlayers[call.name] : player_stats[p] # {}}

\* C13: with two or more candidates and no season requested, the result is
\* the single candidate that has any stats when there is exactly one such
\* candidate, and otherwise a clarification listing all candidates in lookup
\* order.
C13_EmptyPeriods ==
  (/\ call # None
   /\ ret # NotCalled
   /\ Cardinality(MatchedPlayers[call.name]) >= 2
   /\ call.seasons = <<>>) =>
    IF Cardinality(WithAnyStats) = 1
    THEN \A p \in WithAnyStats : ret.kind = "Resolved" /\ ret.entity = p
    ELSE ret = NeedsClarification(
                 clarification_text(PlayerNoun, call.name, call.seasons,
                                    MatchedInOrder))

\* C14: a reply with a filler of the filler list appended gets the same
\* result as the reply alone, for every entry, reply and filler.
C14_FillerInvariance ==
  (call # None /\ ret # NotCalled) =>
    ret = try_resolve_reply(call.text, EntryText(call.entry))

\* "Nick" followed by " please" resolved to Nick Daicos
C14_Witness ==
  /\ call # None
  /\ call.text = TextNick
  /\ call.filler = FillerPlease
  /\ ret = ResolvedTo(NickDaicos, FALSE)

\* C15: a reply that is the full display name of a candidate of the entry,
\* in any letter case, resolves to that candidate.
C15_FullNameResolves ==
  (call # None /\ ret # NotCalled) =>
    \A i \in DOMAIN call.entry.candidates :
      Lower(call.text) = Lower(call.entry.candidates[i]) =>
        ret = ResolvedTo(call.entry.candidates[i], FALSE)

\* the candidate lists the clarification question of a turn can be read as:
\* rows of the turn's name query, in lookup order, listed in the question
EntryCandidates(st) ==
  {c \in (IF st.gpt.players = <<>> THEN {}
          ELSE SubSeqs(query_like(Players, st.gpt.players[1]))) :
     st.response =
       clarification_text(PlayerNoun, st.gpt.players[1], st.gpt.seasons, c)}
  \cup
  {c \in (IF st.gpt.teams = <<>> THEN {}
          ELSE SubSeqs(query_like(Teams, st.gpt.teams[1]))) :
     st.response =
       clarification_text(TeamNoun, st.gpt.teams[1], st.gpt.seasons, c)}

\* C16: every clarification saved in the conversation, pending or
\* superseded, lists at least two candidates.
C16_EntriesHaveTwoCandidates ==
  /\ \A k \in 1..Len(results) :
       results[k].needs_clarification =>
         /\ EntryCandidates(results[k]) # {}
         /\ \A c \in EntryCandidates(results[k]) : Len(c) >= 2
  /\ \A i \in 1..Len(conversation_history) :
       (/\ conversation_history[i].role = "assistant"
        /\ is_clarification_question(conversation_history[i].content)) =>
         \E k \in 1..Len(results) :
           /\ results[k].needs_clarification
           /\ results[k].response = conversation_history[i].content

\* a saved clarification made by the activity filter: three players match
\* the name and the question lists the two that were active
C16_Witness ==
  \E i \in 1..Len(conversation_history) :
    \E k \in 1..Len(results) :
      /\ conversation_history[i].role = "assistant"
      /\ results[k].needs_clarification
      /\ results[k].response = conversation_history[i].content
      /\ results[k].gpt.players # <<>>
      /\ Len(query_like(Players, results[k].gpt.players[1])) = 3
      /\ \E c \in EntryCandidates(results[k]) : Len(c) = 2

\* a database call made by the function call of the state has failed
AdapterFailed ==
  \/ call.faults.query
  \/ /\ Cardinality(MatchedPlayers[call.name]) # 1
     /\ call.faults.stats # {}

\* C17: when the name query or an activity check fails, the call ends with
\* the lookup failure itself: not with Unresolved, Resolved or
\* NeedsClarification, and not with another error.
C17_LookupFailurePropagates ==
  (call # None /\ ret # NotCalled /\ AdapterFailed) =>
    ret = LookupUnavailable

\* the activity check failed for one of two matches while the other match
\* was active in the requested season
C17_Witness ==
  /\ call # None
  /\ ret = LookupUnavailable
  /\ ~call.faults.query
  /\ Cardinality(MatchedPlayers[call.name]) >= 2
  /\ Cardinality(call.faults.stats) = 1
  /\ call.seasons # <<>>
  /\ \E p \in MatchedPlayers[call.name] \ call.faults.stats :
       player_stats[p] \cap Range(call.seasons) # {}

\* C18: the reply resolver acts only on the clarification asked in the most
\* recent saved assistant turn; when that turn was no clarification, an
\* older clarification is left alone and the turn is handled as a new query.
C18_StaleEntryDiscarded ==
  \A k \in 1..Len(results) :
    IF PrevSaved(k) # 0 /\ results[PrevSaved(k)].needs_clarification
    THEN ViaReply(k) =>
           try_resolve_reply(results[k].user_query,
                             results[PrevSaved(k)].response).kind = "Resolved"
    ELSE results[k] = normal_extraction(results[k].user_query, results[k].gpt)

\* an answered turn stands between a clarification and a later text that
\* matches one candidate of that clarification; the text went to extraction
C18_Witness ==
  \E k \in 3..Len(results) :
    \E i \in 1..(k - 2) :
      /\ results[i].needs_clarification
      /\ ~results[k - 1].needs_clarification
      /\ results[k - 1].outcome = "Resolved"
      /\ try_resolve_reply(results[k].user_query,
                           results[i].response).kind = "Resolved"
      /\ results[k].via = "extraction"

RECURSIVE HasDateValue(_)
\* a datetime, date or Timestamp at some depth of the value
HasDateValue(obj) ==
  CASE obj.type \in {"Timestamp", "datetime", "date"} -> TRUE
    [] obj.type = "list" ->
         \E i \in DOMAIN obj.items : HasDateValue(obj.items[i])
    [] obj.type = "dict" ->
         \E i \in DOMAIN obj.vals : HasDateValue(obj.vals[i])
    [] OTHER -> FALSE

\* C20: the entities of every assistant message handed to add_message hold
\* no datetime, date or Timestamp at any depth of dicts and lists, each
\* handed-over value is the sanitized form of the agent's entities, and no
\* save fails with a serialization error.
C20_SavedEntitiesSerializable ==
  /\ ret # TypeError
  /\ \A k \in 1..Len(results) : ~HasDateValue(results[k].entities)
  /\ Len(conversation_history) = Len(results)
  /\ \A i \in 1..Len(conversation_history) :
       conversation_history[i].entities = results[i].entities
  /\ call # None =>
       results[Len(results)].entities =
         make_json_serializable(get_entities(call.final_state))

\* a follow-up message saved whose entities held a Timestamp inside a dict
\* inside a list inside a dict, now an ISO string
C20_Witness ==
  /\ Len(conversation_history) = 2
  /\ ret = Saved
  /\ call # None
  /\ "entities" \in DOMAIN call.final_state
  /\ "nested" \in Range(call.final_state.entities.keys)
  /\ call.final_state.entities.vals[2].vals[2].items[1].vals[1] =
       PyTimestamp(DateMatch, TimeMatch)
  /\ conversation_history[2].entities.vals[2].vals[2].items[1].vals[1] =
       PyStr(DateMatch \o <<"T">> \o TimeMatch)

\* turn k came after a saved turn that asked a clarification question, and
\* its text matched no single candidate of that question
UnmatchedReply(k) ==
  /\ PrevSaved(k) # 0
  /\ results[PrevSaved(k)].needs_clarification
  /\ try_resolve_reply(results[k].user_query,
                       results[PrevSaved(k)].response) = None

\* C22: a turn whose text does not resolve against the pending question is
\* handled as a new query: its result is that of the normal extraction of
\* its own text, and a question it asks lists rows of its own name lookup.
C22_UnmatchedReplyIsNewQuery ==
  \A k \in 1..Len(results) :
    UnmatchedReply(k) =>
      /\ results[k] = normal_extraction(results[k].user_query, results[k].gpt)
      /\ results[k].needs_clarification => EntryCandidates(results[k]) # {}

\* an unmatched reply that led to a new question, different from the
\* pending one
C22_Witness ==
  \E k \in 2..Len(results) :
    /\ UnmatchedReply(k)
    /\ results[k].needs_clarification
    /\ results[k].response # results[PrevSaved(k)].response

\* the pending question of turn k: the saved turn whose question is the last
\* assistant message when turn k starts, or 0
ConsultedEntry(k) ==
  IF PrevSaved(k) # 0 /\ results[PrevSaved(k)].needs_clarification
  THEN PrevSaved(k) ELSE 0

\* C23: every clarification is consulted on at most one user turn, the turn
\* right after the one that asked it, and is closed at the end of that turn
\* whether or not the reply matched.
C23_EntryConsultedOnce ==
  \A k \in 1..Len(results) :
    ConsultedEntry(k) # 0 => ConsultedEntry(k) = k - 1

\* C28: every turn completes with one of the outcomes Resolved,
\* NeedsClarification, Unresolved or a propagated LookupUnavailable.
C28_TurnOutcome ==
  \A k \in 1..Len(results) :
    results[k].outcome \in
      {"Resolved", "NeedsClarification", "Unresolved", "LookupUnavailable"}

\* positions of the clarification questions in a history
EntryIndexes(history) ==
  {i \in 1..Len(history) :
     /\ history[i].role = "assistant"
     /\ is_clarification_question(history[i].content)}

\* C24: a clarification opened by a step stands at a position of the
\* history greater than the position of every clarification opened before,
\* and the earlier clarifications keep their positions.
C24_EntryIndexIncreases ==
  [][/\ \A i \in EntryIndexes(conversation_history) :
          /\ i <= Len(conversation_history')
          /\ conversation_history'[i] = conversation_history[i]
     /\ \A i \in EntryIndexes(conversation_history') :
          \/ i \in EntryIndexes(conversation_history)
          \/ \A j \in EntryIndexes(conversation_history) : i > j]_vars

\* three clarifications opened one after the other
C24_Witness ==
  Cardinality(EntryIndexes(conversation_history)) = 3

\* the reply of the call holds nothing but fillers, punctuation and spaces
OnlyFillers ==
  \/ clean_response(call.text \o call.filler) = <<>>
  \/ call.text \in {TextEmpty, TextPlease}

\* C29: a reply that is empty after the cleaning, or made of fillers only,
\* resolves to no candidate of any entry.
C29_EmptyReplyNeverResolves ==
  (call # None /\ ret # NotCalled /\ OnlyFillers) => ret = None

\* the reply "," is cleaned to the empty string and met an entry whose
\* candidates were read from the question
C29_Witness ==
  /\ call # None
  /\ ret = None
  /\ call.text = TextEmpty
  /\ call.filler = FillerComma
  /\ clean_response(call.text \o call.filler) = <<>>
  /\ Len(extract_candidates(EntryText(call.entry)).candidates) >= 2

\* the matching rule as the claim states it
MatchesByRule(reply, candidate) ==
  LET name   == Lower(candidate)
      tokens == Split(reply)
  IN \/ reply = name
     \/ /\ Len(tokens) >= 1
        /\ \A i \in DOMAIN tokens : tokens[i] \in Range(Split(name))

\* C26: a candidate matches the cleaned reply exactly when the reply equals
\* the candidate's lowered name, or the reply has at least one word and each
\* of its words is a whole word of the candidate's lowered name.
C26_MatchRule ==
  (call # None /\ ret # NotCalled) =>
    ret.matches =
      SelectSeq(call.entry.candidates,
                LAMBDA c : MatchesByRule(clean_response(call.text), c))

\* the history of a conversation whose first n turns are processed with no
\* other conversation around
RECURSIVE HistoryAlone(_, _)
HistoryAlone(turns, n) ==
  IF n = 0 THEN <<>>
  ELSE LET before == HistoryAlone(turns, n - 1)
           st == understand_node(before, turns[n].user_query, turns[n].gpt)
       IN IF st.outcome = "IndexError" THEN before
          ELSE before \o <<Message("user", turns[n].user_query, st.entities),
                           Message("assistant", st.response, st.entities)>>

\* C27: whatever the interleaving of the turns of different conversations,
\* every result of a conversation is the result its turn gives when the
\* conversation is processed alone, and its saved messages (with the pending
\* question among them) are those of the conversation processed alone.
C27_ConversationsIsolated ==
  \A c \in Conversations :
    /\ \A k \in 1..Len(results[c]) :
         results[c][k] =
           understand_node(HistoryAlone(results[c], k - 1),
                           results[c][k].user_query, results[c][k].gpt)
    /\ conversation_history[c] = HistoryAlone(results[c], Len(results[c]))

\* one conversation waits on its question and then resolves it by a reply,
\* while the same reply in the other conversation is a new query
C27_Witness ==
  \E c, d \in Conversations :
    /\ c # d
    /\ Len(results[c]) = 2
    /\ results[c][1].needs_clarification
    /\ results[c][2].via = "reply"
    /\ Len(results[d]) >= 1
    /\ results[d][1].user_query = results[c][2].user_query
    /\ results[d][1].via = "extraction"

\* turn k answered a pending player question
PlayerReply(k) ==
  /\ ViaReply(k)
  /\ PrevSaved(k) # 0
  /\ Contains(Lower(results[PrevSaved(k)].response), WhichPlayer)

\* C21: when a reply resolves the pending player question, a team named in
\* the same turn is still extracted and disambiguated, and the turn's output
\* holds it.
C21_OtherRoleStillExtracted ==
  \A k \in 1..Len(results) :
    PlayerReply(k) =>
      results[k].entities.teams =
        normal_extraction(results[k].user_query, results[k].gpt).entities.teams

\* turn k found both the player name and the team name ambiguous
BothAmbiguous(k) ==
  LET v == validate_entities(results[k].gpt)
  IN /\ results[k].via = "extraction"
     /\ v.player.kind = "NeedsClarification"
     /\ v.team.kind = "NeedsClarification"

\* C25: after a turn that finds both the player and the team ambiguous, a
\* player entry and a team entry are open side by side.
C25_RolesOpenSideBySide ==
  (Len(results) >= 1 /\ BothAmbiguous(Len(results))) =>
    /\ OpenEntries(WhichPlayer) # {}
    /\ OpenEntries(WhichTeam) # {}

\* C30: at most one animation frame request is pending at any time; none is
\* pending, and onTick is not called, while isRunning is false or after the
\* unmount.
C30_FrameRequestsOnlyWhileRunning ==
  /\ Cardinality(frameRequests) <= 1
  /\ (~isRunning \/ ~mounted) => frameRequests = {}
  /\ \A i \in DOMAIN ticks : ticks[i].isRunning /\ ticks[i].mounted

\* positions of the animation frames in the log
FrameIndexes == {j \in DOMAIN frames : frames[j].kind = "frame"}

\* the calls of onTick made by the frame at position j
TicksOfFrame(j) == {i \in DOMAIN ticks : ticks[i].time = frames[j].time}

\* the first frame after a start of the loop calls no onTick
FirstFrameSilent ==
  \A j \in FrameIndexes :
    (j = 1 \/ frames[j - 1].kind = "start") => TicksOfFrame(j) = {}

\* each delta is the time between a frame and the frame before it, with no
\* start of the loop in between
DeltaOfConsecutiveFrames ==
  \A i \in DOMAIN ticks :
    \E j \in FrameIndexes :
      /\ j > 1
      /\ frames[j].time = ticks[i].time
      /\ frames[j - 1].kind = "frame"
      /\ ticks[i].deltaTime = frames[j].time - frames[j - 1].time

\* C31: the first frame after isRunning became true calls no onTick, every
\* delta is the time between two consecutive frames of one running interval,
\* and the function called is the onTick of the most recent render.
C31_TickDeltasAndLatestCallback ==
  /\ FirstFrameSilent
  /\ DeltaOfConsecutiveFrames
  /\ \A i \in DOMAIN ticks : ticks[i].callback = ticks[i].onTick

\* C32: keysPressed holds arrow keys only; while disabled is true no step
\* adds a key or calls onJump, and keysPressed is empty.
C32_KeysOnlyWhileEnabled ==
  /\ [](keysPressed \subseteq ArrowKeys)
  /\ []((disabled /\ controllerMounted) => keysPressed = {})
  /\ [][(disabled /\ controllerMounted) =>
          (keysPressed' \subseteq keysPressed /\ jumps' = jumps)]_vars

\* a sequence without its consecutive repetitions
RECURSIVE Collapse(_)
Collapse(s) ==
  IF Len(s) <= 1 THEN s
  ELSE LET front == Collapse(SubSeq(s, 1, Len(s) - 1))
       IN IF s[Len(s)] = s[Len(s) - 1] THEN front
          ELSE Append(front, s[Len(s)])

\* the renders whose effects have had their turn
EffectedVisits ==
  IF trackDeps = <<pathname>> THEN visits
  ELSE SubSeq(visits, 1, Len(visits) - 1)

\* C33: one request per change of the route path and none for a render on
\* the same path; all requests carry one visitor id, the stored one; a
\* failed request is caught and leaves the last tracked path as it was.
C33_OneRequestPerPathChange ==
  /\ []([i \in DOMAIN requests |-> requests[i].page] = Collapse(EffectedVisits))
  /\ [](\A i \in DOMAIN requests :
          /\ requests[i].visitor_id = visitorStore
          /\ requests[i].status \in {"pending", "ok", "caught"})
  /\ [][(\E i \in DOMAIN requests :
            requests[i].status = "pending" /\ requests'[i].status = "caught")
          => lastTrackedPath' = lastTrackedPath]_vars

\* the path went "/", "/about", "/" with a render on the same path never
\* tracked, the browser had a stored id, and a request failed
C33_Witness ==
  /\ Len(requests) = 2
  /\ Len(visits) = 3
  /\ visits[2] = visits[1]
  /\ visits[3] # visits[2]
  /\ requests[1].visitor_id = "v0"
  /\ requests[1].status = "caught"
  /\ lastTrackedPath = visits[3]

====
